---------------------------- MODULE Spec2Model ----------------------------
(***************************************************************************)
(* A model of the Minecraft chat client (src/src/helper.rs, main.rs):      *)
(*   - the packet transport codec (VarInt, length-prefixed frames,         *)
(*     threshold compression): send_packet, receive_packet, read_packet;   *)
(*   - the session engine of start(): connect, handshake, login start,     *)
(*     compression negotiation, the inbound dispatch loop of the main      *)
(*     thread and the console input loop of the spawned thread, the two    *)
(*     mutexes (socket, roster) and the end of the process.                *)
(* Byte strings are sequences over 0..255; a Cursor<Vec<u8>> is a pair     *)
(* (buffer, position).  A Result is a record whose field st is "ok",       *)
(* "err" (an Err(..) value) or "panic" (the thread panics).                *)
(***************************************************************************)
EXTENDS Integers, Sequences, FiniteSets, TLC

(***************************************************************************)
(* Bounds of the model.                                                    *)
(***************************************************************************)
\* inputs of one session: packets the server delivers once the session is
\* active, and console lines read
MaxInputs == 3

(***************************************************************************)
(* Program constants.                                                      *)
(***************************************************************************)
\* helper.rs:179  while attempt < 6
AttemptLimit == 6
\* helper.rs:389  buffer.len() > 255
MaxLineLen == 255
\* helper.rs:275  read_array_fixed_cursor(cursor, 8)
TokenLen == 8
\* helper.rs:306  read_array_fixed_cursor(cursor, 16)
UuidLen == 16
\* helper.rs:364  packet.0 == 0x03
SetCompressionId == 3
\* helper.rs:428  0x1F
KeepAliveId == 31
\* helper.rs:432  0x0E
ChatMessageId == 14
\* helper.rs:436  0x32
PlayerListId == 50
\* helper.rs:281  send_packet(&mut guard, 0x10, ..)
KeepAliveReplyId == 16
\* helper.rs:415  send_packet(&mut guard, 0x03, ..)
ChatPacketId == 3
\* helper.rs:238  protocol version
ProtocolVersion == 754
\* helper.rs:354  intent = login
LoginIntent == 2
\* helper.rs:352  threshold before negotiation: compression off
NoCompression == -1

--------------------------------------------------------------------------
(***************************************************************************)
(* Byte-string helpers.                                                    *)
(***************************************************************************)
Drop(s, n) == SubSeq(s, n + 1, Len(s))

Take(s, n) == SubSeq(s, 1, n)

\* the sum of s[lo..hi], by halving
RECURSIVE SumRange(_, _, _)
SumRange(s, lo, hi) ==
    IF lo > hi THEN 0
    ELSE IF lo = hi THEN s[lo]
    ELSE LET mid == (lo + hi) \div 2
         IN  SumRange(s, lo, mid) + SumRange(s, mid + 1, hi)

\* the sum over lo..hi of s[i] times the number of elements from i on
RECURSIVE RankSum(_, _, _)
RankSum(s, lo, hi) ==
    IF lo > hi THEN 0
    ELSE IF lo = hi THEN (Len(s) - lo + 1) * s[lo]
    ELSE LET mid == (lo + hi) \div 2
         IN  RankSum(s, lo, mid) + RankSum(s, mid + 1, hi)

Ok(v, p) == [st |-> "ok", val |-> v, pos |-> p]
Fail(kind, p) == [st |-> kind, val |-> << >>, pos |-> p]

(***************************************************************************)
(* VarInt (mc_varint): write_var_int takes the value as u32 and emits 7    *)
(* bits per byte, low group first, with the continuation bit 0x80 while    *)
(* bits remain.  A negative i32 therefore takes 5 bytes.                   *)
(***************************************************************************)
RECURSIVE U32VarInt(_)
U32VarInt(n) ==
    IF n \div 128 = 0 THEN << n % 128 >>
    ELSE << (n % 128) + 128 >> \o U32VarInt(n \div 128)

write_var_int(v) ==
    IF v >= 0 THEN U32VarInt(v)
    ELSE << (v % 128) + 128 >> \o U32VarInt((v \div 128) + 2^25)

\* the i32 contribution of the 7 data bits of byte b in group i (0..4);
\* in group 4 only 4 bits fit, bit 3 of them being the sign bit
VarIntGroup(b, i) ==
    IF i < 4 THEN (b % 128) * (128 ^ i)
    ELSE ((b % 8) * (2 ^ 28))
         - (IF (b \div 8) % 2 = 1 THEN 2 ^ 30 ELSE 0)
         - (IF (b \div 8) % 2 = 1 THEN 2 ^ 30 ELSE 0)

RECURSIVE VarIntRead(_, _, _, _)
VarIntRead(buf, pos, i, acc) ==
    IF pos >= Len(buf) THEN [st |-> "err", val |-> 0, pos |-> pos]
    ELSE LET b == buf[pos + 1]
             acc2 == acc + VarIntGroup(b, i)
         IN  IF b < 128 THEN [st |-> "ok", val |-> acc2, pos |-> pos + 1]
             ELSE IF i = 4 THEN [st |-> "err", val |-> 0, pos |-> pos + 1]
             ELSE VarIntRead(buf, pos + 1, i + 1, acc2)

\* helper.rs:16-28  read_varint / read_varint_cursor
read_varint_cursor(buf, pos) == VarIntRead(buf, pos, 0, 0)

\* helper.rs:57-65  read_exact of buf_size bytes from the cursor; a size that
\* came from a negative i32 (as usize) cannot be allocated: the thread panics
read_array_fixed_cursor(buf, pos, buf_size) ==
    IF buf_size < 0 THEN Fail("panic", pos)
    ELSE IF pos + buf_size > Len(buf) THEN Fail("err", pos)
    ELSE Ok(SubSeq(buf, pos + 1, pos + buf_size), pos + buf_size)

\* helper.rs:48-55
read_array_dynamic_cursor(buf, pos) ==
    LET n == read_varint_cursor(buf, pos)
    IN  IF n.st # "ok" THEN Fail(n.st, n.pos)
        ELSE read_array_fixed_cursor(buf, n.pos, n.val)

(***************************************************************************)
(* zlib (flate2).  A zlib stream is modelled in its stored-block form      *)
(* (RFC 1950 header, one final stored deflate block of RFC 1951, Adler-32  *)
(* trailer): ZlibEncode builds it, ZlibDecode inflates one stream from the *)
(* cursor and fails on a bad header, a truncated block, a bad length       *)
(* complement or a bad checksum.  Bytes after the end of the stream are    *)
(* not read.                                                               *)
(***************************************************************************)
\* Adler-32: a = 1 + the sum of the bytes, b = the sum of the values a takes,
\* both modulo 65521; the four bytes are b, then a, big-endian
AdlerMod(n) == n % 65521

Adler32Bytes(s) ==
    LET n == Len(s)
        a == AdlerMod(1 + SumRange(s, 1, n))
        b == AdlerMod(n + RankSum(s, 1, n))
    IN  << b \div 256, b % 256, a \div 256, a % 256 >>

ZlibEncode(data) ==
    LET n == Len(data)
    IN  << 120, 156, 1, n % 256, n \div 256, 255 - (n % 256), 255 - (n \div 256) >>
        \o data \o Adler32Bytes(data)

ZlibDecode(buf, pos) ==
    IF Len(buf) - pos < 7 THEN Fail("err", pos)
    ELSE LET h == SubSeq(buf, pos + 1, pos + 7)
             n == h[4] + 256 * h[5]
         IN  IF \/ h[1] # 120
                \/ (h[1] * 256 + h[2]) % 31 # 0
                \/ h[3] # 1
                \/ h[6] # 255 - h[4]
                \/ h[7] # 255 - h[5]
             THEN Fail("err", pos)
             ELSE IF Len(buf) - pos < 7 + n + 4 THEN Fail("err", pos)
             ELSE LET data == SubSeq(buf, pos + 8, pos + 7 + n)
                      sum == SubSeq(buf, pos + 8 + n, pos + 11 + n)
                  IN  IF sum # Adler32Bytes(data) THEN Fail("err", pos)
                      ELSE Ok(data, pos + 11 + n)

(***************************************************************************)
(* Sending: the frame written by send_packet, as its two writes            *)
(* (write_var_int of the length, write_all of the body).                   *)
(***************************************************************************)
\* helper.rs:67-71
send_packet_raw(data) == [prefix |-> write_var_int(Len(data)), body |-> data]

\* helper.rs:73-85
send_packet_compressed(data, initial_len) ==
    LET final_packet == write_var_int(initial_len) \o data
    IN  [prefix |-> write_var_int(Len(final_packet)), body |-> final_packet]

RawPacket(packet_id, data) == write_var_int(packet_id) \o data

\* a packet of exactly threshold bytes left uncompressed
send_packet_inclusive(packet_id, data, threshold) ==
    LET raw_packet == RawPacket(packet_id, data)
    IN  IF threshold < 0 THEN send_packet_raw(raw_packet)
        ELSE IF Len(raw_packet) <= threshold
             THEN send_packet_compressed(raw_packet, 0)
             ELSE send_packet_compressed(ZlibEncode(raw_packet), Len(raw_packet))

\* helper.rs:87-119
send_packet(packet_id, data, threshold) ==
    LET raw_packet == RawPacket(packet_id, data)
    IN  IF threshold < 0 THEN send_packet_raw(raw_packet)
        ELSE IF Len(raw_packet) < threshold
             THEN send_packet_compressed(raw_packet, 0)
             ELSE send_packet_compressed(ZlibEncode(raw_packet), Len(raw_packet))

FrameBytes(f) == f.prefix \o f.body

(***************************************************************************)
(* Receiving.  A received packet is [st, id, data, rest]: rest is what is  *)
(* left of the stream after the call.                                      *)
(***************************************************************************)
RecvOk(id, data, rest) == [st |-> "ok", id |-> id, data |-> data, rest |-> rest]
RecvFail(kind, rest) == [st |-> kind, id |-> 0, data |-> << >>, rest |-> rest]

\* the payload size taken to be the whole packet_length
read_packet_whole(buf, pos, packet_length) ==
    LET id == read_varint_cursor(buf, pos)
    IN  IF id.st # "ok" THEN Fail(id.st, id.pos)
        ELSE LET d == read_array_fixed_cursor(buf, id.pos, packet_length)
             IN  IF d.st # "ok" THEN Fail(d.st, d.pos)
                 ELSE Ok(<< id.val, d.val >>, d.pos)

\* helper.rs:121-130  (the subtraction is on u64: a packet_length below the
\* cursor position, or a negative one, gives a size no Vec can have)
read_packet(buf, pos, packet_length) ==
    LET id == read_varint_cursor(buf, pos)
    IN  IF id.st # "ok" THEN Fail(id.st, id.pos)
        ELSE IF packet_length < id.pos THEN Fail("panic", id.pos)
        ELSE LET d == read_array_fixed_cursor(buf, id.pos, packet_length - id.pos)
             IN  IF d.st # "ok" THEN Fail(d.st, d.pos)
                 ELSE Ok(<< id.val, d.val >>, d.pos)

\* helper.rs:132-157
receive_packet(stream, threshold) ==
    LET len == read_varint_cursor(stream, 0)
    IN  IF len.st # "ok" THEN RecvFail("err", << >>)
        ELSE IF len.val < 0 THEN RecvFail("panic", Drop(stream, len.pos))
        ELSE IF len.pos + len.val > Len(stream) THEN RecvFail("err", << >>)
        ELSE
          LET buffer == SubSeq(stream, len.pos + 1, len.pos + len.val)
              rest == Drop(stream, len.pos + len.val)
              Result(p) == IF p.st = "ok" THEN RecvOk(p.val[1], p.val[2], rest)
                           ELSE RecvFail(p.st, rest)
          IN  IF threshold < 0 THEN Result(read_packet(buffer, 0, len.val))
              ELSE
                LET data_length == read_varint_cursor(buffer, 0)
                IN  IF data_length.st # "ok" THEN RecvFail("err", rest)
                    ELSE IF data_length.val = 0
                         THEN Result(read_packet(buffer, data_length.pos, len.val))
                    ELSE LET z == ZlibDecode(buffer, data_length.pos)
                         IN  IF z.st # "ok" THEN RecvFail("err", rest)
                             ELSE Result(read_packet(z.val, 0, data_length.val))

--------------------------------------------------------------------------
(***************************************************************************)
(* The codec on its own: one packet is sent into a byte stream, or a       *)
(* compressed frame is delivered by the peer, and the stream is then       *)
(* received.                                                               *)
(***************************************************************************)
\* longest payload of the codec runs
MaxPayload == 3
\* largest declared uncompressed length of a delivered compressed frame
MaxDeclared == 4

VARIABLES
    pc,               \* where the main thread (start, then main) is
    attempt,          \* init_connection's attempt (0 once it has returned Ok)
    threshold,        \* start's threshold
    threshold_clone,  \* the copy moved into the input thread
    online_players,   \* the roster: uuid -> name
    sock,             \* holder of the Mutex<TcpStream>: "free", "main", "out"
    sock_poisoned,    \* that mutex is poisoned
    roster,           \* holder of the roster mutex
    roster_poisoned,
    wire,             \* what has been written to the socket, write by write
    rx,               \* receive_packet calls of the inbound loop
    last_rx,          \* the last receive_packet call: its threshold and result,
                      \*   what the server had sent (tag), and the roster as
                      \*   it was at the call
    first_packet,     \* the packet received after login start
    ka_tokens,        \* tokens of the keep-alives the server sent, as received
    m_buf,            \* main thread: the payload under its cursor
    m_pos,            \*   and the cursor position
    m_frame,          \*   the frame it is writing
    pl_action,        \* create_player_list: action
    pl_left,          \*   and entries to go
    out_pc,           \* where the input thread is
    out_frame,        \*   the frame it is writing
    lines,            \* read_line calls of the input thread
    stdin_eof,        \* the console has reached its end
    stdin_line,       \* what the last read_line appended to the buffer
    console,          \* what .list printed, and the rejections
    alive,            \* the process runs
    err               \* the error start() returned

svars == << pc, attempt, threshold, threshold_clone, online_players, sock,
            sock_poisoned, roster, roster_poisoned, wire, rx, last_rx,
            first_packet, ka_tokens, m_buf, m_pos, m_frame, pl_action, pl_left, out_pc,
            out_frame, lines, stdin_eof, stdin_line, console, alive, err >>

VARIABLES c_pc, c_id, c_data, c_threshold, c_tail, c_declared, c_corrupt,
          c_frame, c_stream, c_got

cvars == << c_pc, c_id, c_data, c_threshold, c_tail, c_declared, c_corrupt,
            c_frame, c_stream, c_got >>

CodecBytes == {0, 7, 255}

RECURSIVE SeqsUpTo(_, _)
SeqsUpTo(S, n) ==
    IF n = 0 THEN {<< >>}
    ELSE LET shorter == SeqsUpTo(S, n - 1)
         IN  shorter \cup {Append(s, b) : s \in {t \in shorter : Len(t) = n - 1}, b \in S}

CodecIds == {0, ChatPacketId, KeepAliveReplyId, 200, -1}
CodecThresholds == {-1, 0, 1, 2, 3, 256}
\* the bytes of the next frame of the stream, if any
CodecTails == {<< >>, << 1, 0 >>}

NoFrame == [prefix |-> << >>, body |-> << >>]
NoPacket == RecvFail("none", << >>)

CodecIdle ==
    /\ c_pc = "off"
    /\ c_id = 0
    /\ c_data = << >>
    /\ c_threshold = -1
    /\ c_tail = << >>
    /\ c_declared = 0
    /\ c_corrupt = FALSE
    /\ c_frame = NoFrame
    /\ c_stream = << >>
    /\ c_got = NoPacket

CodecInit ==
    /\ c_pc = "start"
    /\ c_id \in CodecIds
    /\ c_data \in SeqsUpTo(CodecBytes, MaxPayload)
    /\ c_threshold \in CodecThresholds
    /\ c_tail \in CodecTails
    /\ c_declared \in 0 .. MaxDeclared
    /\ c_corrupt \in BOOLEAN
    /\ c_frame = NoFrame
    /\ c_stream = << >>
    /\ c_got = NoPacket

\* send_packet writes its frame to the stream; the tail follows it
CodecSend ==
    /\ c_pc = "start"
    /\ c_declared = 0 /\ ~c_corrupt
    /\ c_frame' = send_packet(c_id, c_data, c_threshold)
    /\ c_stream' = FrameBytes(send_packet(c_id, c_data, c_threshold)) \o c_tail
    /\ c_pc' = "sent"
    /\ UNCHANGED << c_id, c_data, c_threshold, c_tail, c_declared, c_corrupt, c_got >>
    /\ UNCHANGED svars

\* the last byte of the checksum of a zlib stream changed
Corrupted(z) == [z EXCEPT ![Len(z)] = (z[Len(z)] + 1) % 256]

\* the peer delivers a compressed frame declaring c_declared uncompressed
\* bytes, whose zlib stream holds the packet (c_id, c_data)
CodecDeliver ==
    /\ c_pc = "start"
    /\ c_threshold >= 0
    /\ c_declared # 0
    /\ LET z == ZlibEncode(RawPacket(c_id, c_data))
           body == write_var_int(c_declared) \o (IF c_corrupt THEN Corrupted(z) ELSE z)
       IN  /\ c_frame' = [prefix |-> write_var_int(Len(body)), body |-> body]
           /\ c_stream' = write_var_int(Len(body)) \o body \o c_tail
    /\ c_pc' = "delivered"
    /\ UNCHANGED << c_id, c_data, c_threshold, c_tail, c_declared, c_corrupt, c_got >>
    /\ UNCHANGED svars

CodecReceive ==
    /\ c_pc \in {"sent", "delivered"}
    /\ c_got' = receive_packet(c_stream, c_threshold)
    /\ c_pc' = IF c_pc = "sent" THEN "sent_received" ELSE "delivered_received"
    /\ UNCHANGED << c_id, c_data, c_threshold, c_tail, c_declared, c_corrupt,
                    c_frame, c_stream >>
    /\ UNCHANGED svars

CodecNext == CodecSend \/ CodecDeliver \/ CodecReceive

--------------------------------------------------------------------------
(***************************************************************************)
(* The session of start().                                                 *)
(***************************************************************************)
vars == << svars, cvars >>

\* main.rs:3-5
IP == << 49, 50, 55, 46, 48, 46, 48, 46, 49 >>
PORT == 25565
USERNAME == << 84, 101, 115, 116, 101, 114, 49, 50 >>

\* helper.rs:230-250  the handshake packet's fields
HandshakePayload(ip, port, intent) ==
    write_var_int(ProtocolVersion) \o write_var_int(Len(ip)) \o ip
    \o << port \div 256, port % 256 >> \o write_var_int(intent)

\* helper.rs:356-359
LoginStartPayload(username) == write_var_int(Len(username)) \o username

\* helper.rs:407-411
ChatPayload(buffer) == write_var_int(Len(buffer)) \o buffer

Chunk(by, kind, bytes, t, id) ==
    [by |-> by, kind |-> kind, bytes |-> bytes, t |-> t, id |-> id]

NoRx == [t |-> -1, st |-> "none", id |-> 0, tag |-> "none", data |-> << >>,
         players |-> [u \in {} |-> << >>]]

NoFirst == [st |-> "none", id |-> 0, data |-> << >>]

SessionInit ==
    /\ pc = "connect"
    /\ attempt = 1
    /\ threshold = NoCompression
    /\ threshold_clone = -1
    /\ online_players = [u \in {} |-> << >>]
    /\ sock = "free"
    /\ sock_poisoned = FALSE
    /\ roster = "free"
    /\ roster_poisoned = FALSE
    /\ wire = << >>
    /\ rx = 0
    /\ last_rx = NoRx
    /\ first_packet = NoFirst
    /\ ka_tokens = << >>
    /\ m_buf = << >>
    /\ m_pos = 0
    /\ m_frame = NoFrame
    /\ pl_action = 0
    /\ pl_left = 0
    /\ out_pc = "off"
    /\ out_frame = NoFrame
    /\ lines = 0
    /\ stdin_eof = FALSE
    /\ stdin_line = << >>
    /\ console = << >>
    /\ alive = TRUE
    /\ err = "none"

\* start() returns Err(kind)
Return(kind) == pc' = "returned" /\ err' = kind

(***************************************************************************)
(* Connecting (helper.rs:177-193, 349).                                    *)
(***************************************************************************)
\* an attempt too many: the loop goes on while attempt <= 6
MayAttemptInclusive(a) == a <= AttemptLimit

\* helper.rs:179  while attempt < 6
MayAttempt(a) == a < AttemptLimit

ConnectOk ==
    /\ alive /\ pc = "connect" /\ MayAttempt(attempt)
    /\ pc' = "handshake"
    /\ attempt' = 0
    /\ UNCHANGED << cvars, threshold, threshold_clone, online_players, sock,
                    sock_poisoned, roster, roster_poisoned, wire, rx, last_rx, first_packet,
                    ka_tokens, m_buf, m_pos, m_frame, pl_action, pl_left,
                    out_pc, out_frame, lines, stdin_eof, stdin_line, console, alive, err >>

ConnectFail ==
    /\ alive /\ pc = "connect" /\ MayAttempt(attempt)
    /\ attempt' = attempt + 1
    /\ UNCHANGED << cvars, pc, threshold, threshold_clone, online_players, sock,
                    sock_poisoned, roster, roster_poisoned, wire, rx, last_rx, first_packet,
                    ka_tokens, m_buf, m_pos, m_frame, pl_action, pl_left,
                    out_pc, out_frame, lines, stdin_eof, stdin_line, console, alive, err >>

ConnectGiveUp ==
    /\ alive /\ pc = "connect" /\ ~MayAttempt(attempt)
    /\ Return("connect")
    /\ UNCHANGED << cvars, attempt, threshold, threshold_clone, online_players, sock,
                    sock_poisoned, roster, roster_poisoned, wire, rx, last_rx, first_packet,
                    ka_tokens, m_buf, m_pos, m_frame, pl_action, pl_left,
                    out_pc, out_frame, lines, stdin_eof, stdin_line, console, alive >>

(***************************************************************************)
(* Handshake and login start (helper.rs:354-361): the main thread alone    *)
(* writes, on its own TcpStream.  A write may fail: before the length      *)
(* prefix (written = 0) or after it (written = 1).                         *)
(***************************************************************************)
Written(by, f, t, id, written) ==
    IF written = 0 THEN wire
    ELSE IF written = 1 THEN Append(wire, Chunk(by, "prefix", f.prefix, t, id))
    ELSE wire \o << Chunk(by, "prefix", f.prefix, t, id),
                    Chunk(by, "body", f.body, t, id) >>

SendHandshake ==
    /\ alive /\ pc = "handshake"
    /\ \E written \in 0 .. 2 :
         /\ wire' = Written("main", send_packet(0, HandshakePayload(IP, PORT, LoginIntent), -1),
                            -1, 0, written)
         /\ IF written = 2 THEN pc' = "login" /\ err' = err ELSE Return("write")
    /\ UNCHANGED << cvars, attempt, threshold, threshold_clone, online_players, sock,
                    sock_poisoned, roster, roster_poisoned, rx, last_rx, first_packet,
                    ka_tokens, m_buf, m_pos, m_frame, pl_action, pl_left,
                    out_pc, out_frame, lines, stdin_eof, stdin_line, console, alive >>

\* the inbound loop entered right after login start, with no first receive
AfterLoginStartNoWait == "recv"

\* helper.rs:361-363  after login start comes the receive of one packet
AfterLoginStart == "negotiate"

SendLoginStart ==
    /\ alive /\ pc = "login"
    /\ \E written \in 0 .. 2 :
         /\ wire' = Written("main", send_packet(0, LoginStartPayload(USERNAME), threshold),
                            threshold, 0, written)
         /\ IF written = 2 THEN pc' = AfterLoginStart /\ err' = err ELSE Return("write")
    /\ UNCHANGED << cvars, attempt, threshold, threshold_clone, online_players, sock,
                    sock_poisoned, roster, roster_poisoned, rx, last_rx, first_packet,
                    ka_tokens, m_buf, m_pos, m_frame, pl_action, pl_left,
                    out_pc, out_frame, lines, stdin_eof, stdin_line, console, alive >>

(***************************************************************************)
(* What the server may deliver.  A frame of the server is a byte string    *)
(* in the protocol's framing for the threshold in force.                   *)
(***************************************************************************)
PeerFrame(id, payload, t) ==
    LET raw == write_var_int(id) \o payload
        body == IF t < 0 THEN raw
                ELSE IF Len(raw) < t THEN << 0 >> \o raw
                ELSE write_var_int(Len(raw)) \o ZlibEncode(raw)
    IN  write_var_int(Len(body)) \o body

Token1 == << 1, 2, 3, 4, 5, 6, 7, 8 >>
Token2 == << 0, 0, 0, 0, 0, 0, 0, 9 >>

Uuid(k) == [i \in 1 .. UuidLen |-> IF i = UuidLen THEN k ELSE 0]

NameAl == << 97, 108 >>
NameBo == << 98, 111 >>
NameZed == << 122, 101, 100 >>

\* an "add" entry: uuid, name, no properties, game mode, ping, no display name
AddEntry(k, name) ==
    Uuid(k) \o write_var_int(Len(name)) \o name \o << 0, 0, 0, 0 >>

\* an "add" entry with one signed property and a display name
AddEntryFull(k, name) ==
    Uuid(k) \o write_var_int(Len(name)) \o name
    \o << 1, 1, 112, 1, 118, 1, 1, 115 >> \o << 0, 0 >> \o << 1, 1, 100 >>

PlayerList(action, count, entries) ==
    write_var_int(action) \o write_var_int(count) \o entries

\* id, payload, and what the packet is by the protocol: "good",
\* "malformed" (a handled packet whose payload cannot be decoded) or
\* "unknown_action" (a player-list update with an action code above 4)
PeerPackets ==
    { << KeepAliveId, Token1, "good" >>,
      << KeepAliveId, Token2, "good" >>,
      << KeepAliveId, << 1, 2, 3 >>, "malformed" >>,
      << ChatMessageId, << 4, 34, 104, 105, 34 >>, "good" >>,
      << ChatMessageId, << 1, 255 >>, "malformed" >>,
      << PlayerListId, PlayerList(0, 2, AddEntry(1, NameAl) \o AddEntry(1, NameZed)), "good" >>,
      << PlayerListId, PlayerList(0, 1, AddEntryFull(1, NameZed)), "good" >>,
      << PlayerListId, PlayerList(0, 2, AddEntry(2, NameBo) \o AddEntry(3, NameAl)), "good" >>,
      << PlayerListId, PlayerList(0, 2, AddEntry(2, NameBo)), "malformed" >>,
      << PlayerListId, PlayerList(1, 1, Uuid(1) \o << 0 >>), "good" >>,
      << PlayerListId, PlayerList(3, 1, Uuid(1) \o << 1, 1, 100 >>), "good" >>,
      << PlayerListId, PlayerList(4, 2, Uuid(1) \o Uuid(2)), "good" >>,
      << PlayerListId, PlayerList(5, 1, Uuid(1)), "unknown_action" >>,
      << PlayerListId, PlayerList(7, 0, << >>), "unknown_action" >>,
      << 33, << 1 >>, "good" >> }

Stream(bytes, tag) == [bytes |-> bytes, tag |-> tag]

\* the stream ends, ends inside a frame, or announces a negative length
BrokenStreams ==
    { Stream(<< >>, "closed"),
      Stream(<< 5, 14 >>, "truncated"),
      Stream(write_var_int(-1), "negative") }

\* a compressed frame whose zlib stream is damaged
CorruptStreams ==
    { Stream(<< 10, 9, 120, 156, 1, 9, 0, 246, 255, 31, 1 >>, "corrupt") }

\* thresholds the server may set
PeerThresholds == {0, 12}

SessionThresholds == PeerThresholds \cup {-1}

\* what the next receive_packet may find on the socket, by the threshold
\* the server frames with
ActiveStreams ==
    [t \in SessionThresholds |->
        {Stream(PeerFrame(p[1], p[2], t), p[3]) : p \in PeerPackets}
        \cup BrokenStreams
        \cup (IF t >= 0 THEN CorruptStreams ELSE {})]

NegotiationStreams ==
    {PeerFrame(SetCompressionId, write_var_int(t), -1) : t \in PeerThresholds}
    \cup { PeerFrame(SetCompressionId, << >>, -1),
           PeerFrame(KeepAliveId, Token1, -1),
           PeerFrame(PlayerListId, PlayerList(0, 1, AddEntry(1, NameAl)), -1),
           << >> }

(***************************************************************************)
(* Dispatch (helper.rs:425-443).  The next position of the main thread:    *)
(* pc, the error returned, the cursor, the frame to write, the player-list *)
(* header and the token read.                                              *)
(***************************************************************************)
Step(p, e, buf, pos, frame, action, left) ==
    [pc |-> p, err |-> e, buf |-> buf, pos |-> pos, frame |-> frame,
     action |-> action, left |-> left]

Goto(p) == Step(p, "none", << >>, 0, NoFrame, 0, 0)
\* a packet that cannot be decoded is skipped
StopSkips(st) == Goto("recv")

\* the ? operator on a failed decode: start() returns the error
Stop(st) ==
    IF st = "panic" THEN Goto("panicked")
    ELSE Step("returned", "decode", << >>, 0, NoFrame, 0, 0)

\* String::from_utf8: of the bytes the server sends here, only 0xFF is not UTF-8
Utf8Ok(bytes) == \A i \in 1 .. Len(bytes) : bytes[i] < 128

\* serde_json + FormattedText: the chat texts sent here are JSON strings
JsonOk(bytes) == Len(bytes) >= 2 /\ bytes[1] = 34 /\ bytes[Len(bytes)] = 34

\* helper.rs:285-295
receive_chat_message(buf, pos) ==
    LET response_buf == read_array_dynamic_cursor(buf, pos)
    IN  IF response_buf.st # "ok" THEN response_buf.st
        ELSE IF ~Utf8Ok(response_buf.val) THEN "err"
        ELSE IF ~JsonOk(response_buf.val) THEN "err"
        ELSE "ok"

\* the reply sent under the id of the keep-alive itself
KeepAliveStepSameId(data, t) ==
    LET packet_secret == read_array_fixed_cursor(data, 0, TokenLen)
    IN  IF packet_secret.st # "ok" THEN Stop(packet_secret.st)
        ELSE Step("ka_lock", "none", << >>, 0,
                  send_packet(KeepAliveId, packet_secret.val, t), 0, 0)

\* helper.rs:270-279  the token is read before the lock is taken
KeepAliveStep(data, t) ==
    LET packet_secret == read_array_fixed_cursor(data, 0, TokenLen)
    IN  IF packet_secret.st # "ok" THEN Stop(packet_secret.st)
        ELSE Step("ka_lock", "none", << >>, 0,
                  send_packet(KeepAliveReplyId, packet_secret.val, t), 0, 0)

\* helper.rs:301-302  action and count are read before the lock is taken
PlayerListStep(data) ==
    LET action == read_varint_cursor(data, 0)
        number_of_players == read_varint_cursor(data, action.pos)
    IN  IF action.st # "ok" THEN Stop(action.st)
        ELSE IF number_of_players.st # "ok" THEN Stop(number_of_players.st)
        ELSE Step("pl_lock", "none", data, number_of_players.pos, NoFrame,
                  action.val, number_of_players.val)

Dispatch(id, data, t) ==
    IF id = KeepAliveId THEN KeepAliveStep(data, t)
    ELSE IF id = ChatMessageId
         THEN (IF receive_chat_message(data, 0) = "ok" THEN Goto("recv")
               ELSE Stop(receive_chat_message(data, 0)))
    ELSE IF id = PlayerListId THEN PlayerListStep(data)
    ELSE Goto("recv")

\* the first packet replayed through the dispatch of the inbound loop
FirstPacketReplayed(id, data, t) == Dispatch(id, data, t)

\* helper.rs:363-372  the first packet after login start: only its id is
\* looked at, and it goes through no dispatch
FirstPacket(id, data, t) == Goto("recv")

\* helper.rs:364-371
NegotiatedThreshold(id, data, cur) ==
    IF id = SetCompressionId
    THEN LET v == read_varint_cursor(data, 0)
         IN  [st |-> v.st, val |-> v.val]
    ELSE [st |-> "ok", val |-> cur]

\* the main thread moves on as step says
MainGoes(step) ==
    /\ pc' = step.pc
    /\ err' = step.err
    /\ m_buf' = step.buf
    /\ m_pos' = step.pos
    /\ m_frame' = step.frame
    /\ pl_action' = step.action
    /\ pl_left' = step.left

(***************************************************************************)
(* Compression negotiation and the start of the input thread               *)
(* (helper.rs:363-379).                                                    *)
(***************************************************************************)
Negotiate ==
    /\ alive /\ pc = "negotiate"
    /\ \E stream \in NegotiationStreams :
         LET packet == receive_packet(stream, -1)
             neg == NegotiatedThreshold(packet.id, packet.data, threshold)
         IN  /\ last_rx' = [t |-> -1, st |-> packet.st, id |-> packet.id, tag |-> "first",
                           data |-> packet.data, players |-> online_players]
             /\ first_packet' = [st |-> packet.st, id |-> packet.id, data |-> packet.data]
             /\ IF packet.st # "ok"
                THEN /\ MainGoes(IF packet.st = "panic" THEN Goto("panicked")
                                 ELSE Step("returned", "receive", << >>, 0, NoFrame, 0, 0))
                     /\ UNCHANGED << threshold, threshold_clone, out_pc >>
                ELSE IF neg.st # "ok"
                THEN /\ MainGoes(Stop(neg.st))
                     /\ UNCHANGED << threshold, threshold_clone, out_pc >>
                ELSE /\ threshold' = neg.val
                     /\ threshold_clone' = neg.val
                     /\ out_pc' = "read"
                     /\ MainGoes(FirstPacket(packet.id, packet.data, neg.val))
    /\ UNCHANGED << cvars, attempt, online_players, sock, sock_poisoned, roster,
                    roster_poisoned, wire, rx, ka_tokens, out_frame, lines,
                    stdin_eof, stdin_line, console, alive >>

(***************************************************************************)
(* The inbound loop: receive and dispatch (helper.rs:422-444).             *)
(***************************************************************************)
\* helper.rs:423  the threshold the inbound loop receives with
RecvThreshold == threshold

Recv ==
    /\ alive /\ pc = "recv" /\ rx + lines < MaxInputs
    /\ \E stream \in ActiveStreams[threshold] :
         LET loop_packet == receive_packet(stream.bytes, RecvThreshold)
         IN  /\ last_rx' = [t |-> RecvThreshold, st |-> loop_packet.st,
                            id |-> loop_packet.id, tag |-> stream.tag,
                            data |-> loop_packet.data, players |-> online_players]
             /\ ka_tokens' = IF /\ loop_packet.st = "ok"
                                /\ loop_packet.id = KeepAliveId
                                /\ Len(loop_packet.data) >= TokenLen
                             THEN Append(ka_tokens, Take(loop_packet.data, TokenLen))
                             ELSE ka_tokens
             /\ IF loop_packet.st # "ok"
                THEN MainGoes(IF loop_packet.st = "panic" THEN Goto("panicked")
                              ELSE Step("returned", "receive", << >>, 0, NoFrame, 0, 0))
                ELSE MainGoes(Dispatch(loop_packet.id, loop_packet.data, threshold))
    /\ rx' = rx + 1
    /\ UNCHANGED << cvars, attempt, threshold, threshold_clone, online_players, sock,
                    sock_poisoned, roster, roster_poisoned, wire, first_packet,
                    out_pc, out_frame, lines, stdin_eof, stdin_line, console, alive >>

(***************************************************************************)
(* Mutex::lock().unwrap(): the caller waits until the mutex is free; if a  *)
(* thread panicked while holding it, the mutex is poisoned and unwrap      *)
(* panics.                                                                 *)
(***************************************************************************)
\* a lock that is never granted
MutexNeverGranted(holder) == FALSE

\* a lock that never waits
MutexNeverWaits(holder) == TRUE

MutexFree(holder) == holder = "free"

(***************************************************************************)
(* The keep-alive reply (helper.rs:280-282): lock, write the length,       *)
(* write the body, drop the guard.  A failed write returns the error.      *)
(***************************************************************************)
KaLock ==
    /\ alive /\ pc = "ka_lock" /\ MutexFree(sock)
    /\ IF sock_poisoned THEN pc' = "panicked" /\ sock' = sock
       ELSE pc' = "ka_prefix" /\ sock' = "main"
    /\ UNCHANGED << cvars, attempt, threshold, threshold_clone, online_players,
                    sock_poisoned, roster, roster_poisoned, wire, rx, last_rx, first_packet,
                    ka_tokens, m_buf, m_pos, m_frame, pl_action, pl_left,
                    out_pc, out_frame, lines, stdin_eof, stdin_line, console, alive, err >>

KaPrefix ==
    /\ alive /\ pc = "ka_prefix"
    /\ \E ok \in BOOLEAN :
         IF ok
         THEN /\ wire' = Append(wire, Chunk("main", "prefix", m_frame.prefix, threshold, KeepAliveReplyId))
              /\ pc' = "ka_body"
              /\ UNCHANGED << sock, err, m_frame >>
         ELSE /\ Return("write")
              /\ sock' = "free"
              /\ m_frame' = NoFrame
              /\ wire' = wire
    /\ UNCHANGED << cvars, attempt, threshold, threshold_clone, online_players,
                    sock_poisoned, roster, roster_poisoned, rx, last_rx, first_packet,
                    ka_tokens, m_buf, m_pos, pl_action, pl_left,
                    out_pc, out_frame, lines, stdin_eof, stdin_line, console, alive >>

KaBody ==
    /\ alive /\ pc = "ka_body"
    /\ \E ok \in BOOLEAN :
         IF ok
         THEN /\ wire' = Append(wire, Chunk("main", "body", m_frame.body, threshold, KeepAliveReplyId))
              /\ pc' = "recv"
              /\ err' = err
         ELSE /\ Return("write")
              /\ wire' = wire
    /\ sock' = "free"
    /\ m_frame' = NoFrame
    /\ UNCHANGED << cvars, attempt, threshold, threshold_clone, online_players,
                    sock_poisoned, roster, roster_poisoned, rx, last_rx, first_packet,
                    ka_tokens, m_buf, m_pos, pl_action, pl_left,
                    out_pc, out_frame, lines, stdin_eof, stdin_line, console, alive >>

(***************************************************************************)
(* create_player_list (helper.rs:297-346).                                 *)
(***************************************************************************)
At(st, pos) == [st |-> st, pos |-> pos]

\* the steps of the cursor through the fields of an entry: each takes the
\* cursor as the step before left it and passes a failure on
\* helper.rs:318  let _ = read_array_dynamic_cursor(cursor)?
skip_array(r, buf) ==
    IF r.st # "ok" THEN r
    ELSE LET a == read_array_dynamic_cursor(buf, r.pos)
         IN  At(a.st, a.pos)

\* helper.rs:325  let _ = read_varint_cursor(cursor)?
skip_varint(r, buf) ==
    IF r.st # "ok" THEN r
    ELSE LET v == read_varint_cursor(buf, r.pos)
         IN  At(v.st, v.pos)

\* helper.rs:320-323, 327-330, 336-339  a one-byte flag, and an array if it is 1
skip_flagged_array(r, buf) ==
    IF r.st # "ok" THEN r
    ELSE LET flag == read_array_fixed_cursor(buf, r.pos, 1)
         IN  IF flag.st # "ok" THEN At(flag.st, flag.pos)
             ELSE IF flag.val[1] # 1 THEN At("ok", flag.pos)
             ELSE skip_array(At("ok", flag.pos), buf)

\* helper.rs:317-324  name, value, is_signed and signature of n properties
RECURSIVE skip_properties(_, _, _)
skip_properties(r, buf, n) ==
    IF r.st # "ok" \/ n <= 0 THEN r
    ELSE skip_properties(skip_flagged_array(skip_array(skip_array(r, buf), buf), buf),
                         buf, n - 1)

\* helper.rs:316-330  what follows the name of an added player
skip_add_fields(buf, pos) ==
    LET number_of_properties == read_varint_cursor(buf, pos)
    IN  IF number_of_properties.st # "ok" THEN At(number_of_properties.st, pos)
        ELSE skip_flagged_array(
               skip_varint(
                 skip_varint(
                   skip_properties(At("ok", number_of_properties.pos), buf,
                                   number_of_properties.val),
                   buf),
                 buf),
               buf)

\* HashMap::insert: the name given last is the one stored
insert(players, uuid, name) ==
    [u \in DOMAIN players \cup {uuid} |-> IF u = uuid THEN name ELSE players[u]]

\* helper.rs:314  players.entry(uuid).or_insert(name)
or_insert(players, uuid, name) ==
    IF uuid \in DOMAIN players THEN players
    ELSE [u \in DOMAIN players \cup {uuid} |-> IF u = uuid THEN name ELSE players[u]]

\* HashMap::clear: every entry goes
clear(players, uuid) == [u \in {} |-> << >>]

\* helper.rs:342  players.remove(&uuid)
remove(players, uuid) == [u \in DOMAIN players \ {uuid} |-> players[u]]

Entry(r, players) == [st |-> r.st, pos |-> r.pos, players |-> players]

\* helper.rs:312-331  action 0: the name is inserted before the rest is read
add_player(buf, pos, uuid, players) ==
    LET name == read_array_dynamic_cursor(buf, pos)
    IN  IF name.st # "ok" THEN Entry(name, players)
        ELSE IF ~Utf8Ok(name.val) THEN Entry(At("err", name.pos), players)
        ELSE Entry(skip_add_fields(buf, name.pos), or_insert(players, uuid, name.val))

\* an update of game mode or ping (action 1 or 2) that drops the player
entry_action_update_drops(buf, pos, uuid, action, players) ==
    IF action = 0 THEN add_player(buf, pos, uuid, players)
    ELSE IF action = 1 \/ action = 2
    THEN Entry(skip_varint(At("ok", pos), buf), remove(players, uuid))
    ELSE IF action = 3 THEN Entry(skip_flagged_array(At("ok", pos), buf), players)
    ELSE IF action = 4 THEN Entry(At("ok", pos), remove(players, uuid))
    ELSE Entry(At("ok", pos), players)

\* helper.rs:312-343  the entry after its uuid
entry_action(buf, pos, uuid, action, players) ==
    IF action = 0 THEN add_player(buf, pos, uuid, players)
    ELSE IF action = 1 \/ action = 2 THEN Entry(skip_varint(At("ok", pos), buf), players)
    ELSE IF action = 3 THEN Entry(skip_flagged_array(At("ok", pos), buf), players)
    ELSE IF action = 4 THEN Entry(At("ok", pos), remove(players, uuid))
    ELSE Entry(At("ok", pos), players)

\* helper.rs:306-343  one turn of the loop: [st, pos, players]
player_entry(buf, pos, action, players) ==
    LET uuid_arr == read_array_fixed_cursor(buf, pos, UuidLen)
    IN  IF uuid_arr.st # "ok" THEN Entry(At(uuid_arr.st, pos), players)
        ELSE entry_action(buf, uuid_arr.pos, uuid_arr.val, action, players)

PlLock ==
    /\ alive /\ pc = "pl_lock" /\ MutexFree(roster)
    /\ IF roster_poisoned THEN pc' = "panicked" /\ roster' = roster
       ELSE pc' = "pl_entry" /\ roster' = "main"
    /\ UNCHANGED << cvars, attempt, threshold, threshold_clone, online_players, sock,
                    sock_poisoned, roster_poisoned, wire, rx, last_rx, first_packet,
                    ka_tokens, m_buf, m_pos, m_frame, pl_action, pl_left,
                    out_pc, out_frame, lines, stdin_eof, stdin_line, console, alive, err >>

\* one entry of the packet, under the roster lock
PlEntry ==
    /\ alive /\ pc = "pl_entry" /\ pl_left > 0
    /\ LET e == player_entry(m_buf, m_pos, pl_action, online_players)
       IN  /\ online_players' = e.players
           /\ m_pos' = e.pos
           /\ IF e.st = "ok"
              THEN /\ pl_left' = pl_left - 1
                   /\ UNCHANGED << pc, err, roster, roster_poisoned >>
              ELSE /\ pl_left' = 0
                   /\ roster' = "free"
                   /\ roster_poisoned' = (roster_poisoned \/ e.st = "panic")
                   /\ IF e.st = "panic" THEN pc' = "panicked" /\ err' = err
                      ELSE Return("decode")
    /\ UNCHANGED << cvars, attempt, threshold, threshold_clone, sock,
                    sock_poisoned, wire, rx, last_rx, first_packet, ka_tokens, m_buf,
                    m_frame, pl_action, out_pc, out_frame, lines, stdin_eof, stdin_line,
                    console, alive >>

\* the function returns with the roster still locked
PlDoneKeepsLock ==
    /\ alive /\ pc = "pl_entry" /\ pl_left <= 0
    /\ pc' = "recv"
    /\ m_buf' = << >>
    /\ m_pos' = 0
    /\ pl_left' = 0
    /\ pl_action' = 0
    /\ UNCHANGED << cvars, attempt, threshold, threshold_clone, online_players, sock,
                    sock_poisoned, roster, roster_poisoned, wire, rx, last_rx,
                    first_packet, ka_tokens, m_frame, out_pc, out_frame, lines,
                    stdin_eof, stdin_line, console, alive, err >>

\* the loop is over: Ok(()), the guard is dropped
PlDone ==
    /\ alive /\ pc = "pl_entry" /\ pl_left <= 0
    /\ roster' = "free"
    /\ pc' = "recv"
    /\ m_buf' = << >>
    /\ m_pos' = 0
    /\ pl_left' = 0
    /\ pl_action' = 0
    /\ UNCHANGED << cvars, attempt, threshold, threshold_clone, online_players, sock,
                    sock_poisoned, roster_poisoned, wire, rx, last_rx, first_packet,
                    ka_tokens, m_frame, out_pc, out_frame, lines, stdin_eof, stdin_line,
                    console, alive, err >>

(***************************************************************************)
(* main (main.rs:12-14): an Err from start() makes main panic, and a       *)
(* panic of the main thread ends the process and the input thread with it. *)
(***************************************************************************)
MainEnds ==
    /\ alive /\ pc \in {"returned", "panicked"}
    /\ alive' = FALSE
    /\ UNCHANGED << cvars, pc, attempt, threshold, threshold_clone, online_players,
                    sock, sock_poisoned, roster, roster_poisoned, wire, rx,
                    last_rx, first_packet, ka_tokens, m_buf, m_pos, m_frame, pl_action,
                    pl_left, out_pc, out_frame, lines, stdin_eof, stdin_line, console, err >>

(***************************************************************************)
(* The input thread (helper.rs:379-420).                                   *)
(***************************************************************************)
Whitespace == {9, 10, 13, 32}

RECURSIVE TrimStart(_)
TrimStart(s) ==
    IF s # << >> /\ s[1] \in Whitespace THEN TrimStart(Tail(s)) ELSE s

RECURSIVE TrimEnd(_)
TrimEnd(s) ==
    IF s # << >> /\ s[Len(s)] \in Whitespace THEN TrimEnd(Take(s, Len(s) - 1)) ELSE s

\* helper.rs:387  buffer.trim()
trim(s) == TrimEnd(TrimStart(s))

Lower(b) == IF b >= 65 /\ b <= 90 THEN b + 32 ELSE b

\* helper.rs:395, 403
eq_ignore_ascii_case(a, b) ==
    /\ Len(a) = Len(b)
    /\ \A i \in 1 .. Len(a) : Lower(a[i]) = Lower(b[i])

DotList == << 46, 108, 105, 115, 116 >>
DotQuit == << 46, 113, 117, 105, 116 >>

LineOf(n) == [i \in 1 .. n |-> 97]

\* what read_line may append to the buffer: a line with its newline (one
\* of them ends in a blank and has 256 bytes before its line terminator);
\* nothing at the end of the input
ConsoleInputs ==
    { << 104, 105, 10 >>,
      << 32, 46, 76, 105, 115, 116, 10 >>,
      DotQuit \o << 10 >>,
      LineOf(MaxLineLen) \o << 10 >>,
      LineOf(MaxLineLen + 1) \o << 10 >>,
      LineOf(MaxLineLen) \o << 32, 13, 10 >>,
      << >> }

\* read_line fails on input that is not UTF-8
BadConsoleInputs == { << 255, 10 >> }

\* the threshold as it was when start() began
ChatThresholdStale == NoCompression

\* helper.rs:415  the threshold the input thread sends with
ChatThreshold == threshold_clone

\* a limit of 254 bytes: a line of 255 is already too long
TooLongInclusive(buffer) == Len(buffer) >= MaxLineLen

\* helper.rs:389  the line is too long to be sent
TooLong(buffer) == Len(buffer) > MaxLineLen

ReadLine ==
    /\ alive /\ out_pc = "read" /\ rx + lines < MaxInputs
    /\ lines' = lines + 1
    /\ \E input \in ConsoleInputs \cup BadConsoleInputs :
         /\ stdin_eof => input = << >>
         /\ stdin_eof' = (input = << >>)
         /\ stdin_line' = input
         /\ LET buffer == trim(input)
            IN  IF input \in BadConsoleInputs
                THEN /\ out_pc' = "panicked"
                     /\ UNCHANGED << console, alive, out_frame >>
                ELSE IF TooLong(buffer)
                THEN /\ console' = Append(console, [kind |-> "rejected", count |-> 0, names |-> << >>])
                     /\ UNCHANGED << out_pc, alive, out_frame >>
                ELSE IF eq_ignore_ascii_case(buffer, DotList)
                THEN /\ out_pc' = "list_lock"
                     /\ UNCHANGED << console, alive, out_frame >>
                ELSE IF eq_ignore_ascii_case(buffer, DotQuit)
                THEN /\ alive' = FALSE
                     /\ out_pc' = "exited"
                     /\ UNCHANGED << console, out_frame >>
                ELSE /\ out_frame' = send_packet(ChatPacketId, ChatPayload(buffer), ChatThreshold)
                     /\ out_pc' = "chat_lock"
                     /\ UNCHANGED << console, alive >>
    /\ UNCHANGED << cvars, pc, attempt, threshold, threshold_clone, online_players,
                    sock, sock_poisoned, roster, roster_poisoned, wire, rx,
                    last_rx, first_packet, ka_tokens, m_buf, m_pos, m_frame, pl_action,
                    pl_left, err >>

\* the orders in which a HashMap may iterate over the keys S
Orderings(S) ==
    {o \in [1 .. Cardinality(S) -> S] : \A i, j \in 1 .. Cardinality(S) : o[i] = o[j] => i = j}

\* helper.rs:159-175  "Online Players (count): [names]"
create_players_string(players, order) ==
    [kind |-> "list",
     count |-> Cardinality(DOMAIN players),
     names |-> [i \in 1 .. Len(order) |-> players[order[i]]]]

ListLock ==
    /\ alive /\ out_pc = "list_lock" /\ MutexFree(roster)
    /\ IF roster_poisoned THEN out_pc' = "panicked" /\ roster' = roster
       ELSE out_pc' = "list_print" /\ roster' = "out"
    /\ UNCHANGED << cvars, pc, attempt, threshold, threshold_clone, online_players,
                    sock, sock_poisoned, roster_poisoned, wire, rx, last_rx, first_packet,
                    ka_tokens, m_buf, m_pos, m_frame, pl_action, pl_left,
                    out_frame, lines, stdin_eof, stdin_line, console, alive, err >>

ListPrint ==
    /\ alive /\ out_pc = "list_print"
    /\ \E order \in Orderings(DOMAIN online_players) :
         console' = Append(console, create_players_string(online_players, order))
    /\ roster' = "free"
    /\ out_pc' = "read"
    /\ UNCHANGED << cvars, pc, attempt, threshold, threshold_clone, online_players,
                    sock, sock_poisoned, roster_poisoned, wire, rx, last_rx, first_packet,
                    ka_tokens, m_buf, m_pos, m_frame, pl_action, pl_left,
                    out_frame, lines, stdin_eof, stdin_line, alive, err >>

\* helper.rs:413-416: lock, send_packet(..).unwrap(), drop the guard.  A
\* failed write panics with the guard held: the thread ends and the mutex
\* is poisoned.
ChatLock ==
    /\ alive /\ out_pc = "chat_lock" /\ MutexFree(sock)
    /\ IF sock_poisoned THEN out_pc' = "panicked" /\ sock' = sock
       ELSE out_pc' = "chat_prefix" /\ sock' = "out"
    /\ UNCHANGED << cvars, pc, attempt, threshold, threshold_clone, online_players,
                    sock_poisoned, roster, roster_poisoned, wire, rx, last_rx, first_packet,
                    ka_tokens, m_buf, m_pos, m_frame, pl_action, pl_left,
                    out_frame, lines, stdin_eof, stdin_line, console, alive, err >>

ChatPrefix ==
    /\ alive /\ out_pc = "chat_prefix"
    /\ \E ok \in BOOLEAN :
         IF ok
         THEN /\ wire' = Append(wire, Chunk("out", "prefix", out_frame.prefix, ChatThreshold, ChatPacketId))
              /\ out_pc' = "chat_body"
              /\ UNCHANGED << sock, sock_poisoned, out_frame >>
         ELSE /\ out_pc' = "panicked"
              /\ sock' = "free"
              /\ sock_poisoned' = TRUE
              /\ out_frame' = NoFrame
              /\ wire' = wire
    /\ UNCHANGED << cvars, pc, attempt, threshold, threshold_clone, online_players,
                    roster, roster_poisoned, rx, last_rx, first_packet, ka_tokens, m_buf,
                    m_pos, m_frame, pl_action, pl_left, lines, stdin_eof, stdin_line,
                    console, alive, err >>

ChatBody ==
    /\ alive /\ out_pc = "chat_body"
    /\ \E ok \in BOOLEAN :
         IF ok
         THEN /\ wire' = Append(wire, Chunk("out", "body", out_frame.body, ChatThreshold, ChatPacketId))
              /\ out_pc' = "read"
              /\ sock_poisoned' = sock_poisoned
         ELSE /\ out_pc' = "panicked"
              /\ sock_poisoned' = TRUE
              /\ wire' = wire
    /\ sock' = "free"
    /\ out_frame' = NoFrame
    /\ UNCHANGED << cvars, pc, attempt, threshold, threshold_clone, online_players,
                    roster, roster_poisoned, rx, last_rx, first_packet, ka_tokens, m_buf,
                    m_pos, m_frame, pl_action, pl_left, lines, stdin_eof, stdin_line,
                    console, alive, err >>

--------------------------------------------------------------------------
Init == SessionInit /\ CodecIdle

Next ==
    \/ ConnectOk \/ ConnectFail \/ ConnectGiveUp
    \/ SendHandshake \/ SendLoginStart \/ Negotiate
    \/ Recv \/ KaLock \/ KaPrefix \/ KaBody
    \/ PlLock \/ PlEntry \/ PlDone
    \/ MainEnds
    \/ ReadLine \/ ListLock \/ ListPrint
    \/ ChatLock \/ ChatPrefix \/ ChatBody

\* the session
Spec == Init /\ [][Next]_vars

\* the session under fair scheduling: a thread that can write does write,
\* a thread that holds a lock goes on to release it, and the inbound loop,
\* waiting for the socket lock, gets it if it is free again and again
Fairness ==
    /\ SF_vars(KaLock)
    /\ WF_vars(KaPrefix)
    /\ WF_vars(KaBody)
    /\ WF_vars(ChatPrefix)
    /\ WF_vars(ChatBody)

LiveSpec == Init /\ [][Next]_vars /\ Fairness

CodecSpecInit == CodecInit /\ SessionInit

\* the codec on its own
CodecSpec == CodecSpecInit /\ [][CodecNext]_vars

--------------------------------------------------------------------------
(***************************************************************************)
(* Properties of the session.                                              *)
(***************************************************************************)
\* the session is Active: the input thread has been started
Active == out_pc # "off"

\* the writes of the Active state: those after the handshake and login-start
\* frames (two writes each)
ActiveWire == Drop(wire, 4)

\* the frames completely written, in order: [by, bytes, t]
RECURSIVE FramesOf(_)
FramesOf(w) ==
    IF Len(w) < 2 THEN << >>
    ELSE IF w[1].kind = "prefix" /\ w[2].kind = "body" /\ w[1].by = w[2].by
    THEN << [by |-> w[1].by, bytes |-> w[1].bytes \o w[2].bytes, t |-> w[2].t] >>
         \o FramesOf(Drop(w, 2))
    ELSE FramesOf(Tail(w))

ByMain(f) == f.by = "main"
ByOut(f) == f.by = "out"

\* the frames of the Active state written by the inbound loop / the input loop
MainFrames == SelectSeq(FramesOf(ActiveWire), ByMain)
OutFrames == SelectSeq(FramesOf(ActiveWire), ByOut)

\* a frame as the server reads it, with the threshold of the session
AsRead(f) == receive_packet(f.bytes, threshold)

LastChunk == wire[Len(wire)]

\* C1: every frame is contiguous on the wire: a body is written right after
\* the length prefix of the same writer and has the length the prefix gives;
\* a writer between its two writes holds the socket lock, and nothing has
\* been written after its prefix.
C1_FramesContiguous ==
    /\ \A j \in 1 .. Len(wire) :
         wire[j].kind = "body" =>
           /\ j > 1
           /\ wire[j - 1].kind = "prefix"
           /\ wire[j - 1].by = wire[j].by
           /\ read_varint_cursor(wire[j - 1].bytes, 0).val = Len(wire[j].bytes)
    /\ pc = "ka_body" =>
         /\ sock = "main"
         /\ LastChunk = Chunk("main", "prefix", m_frame.prefix, threshold, KeepAliveReplyId)
    /\ out_pc = "chat_body" =>
         /\ sock = "out"
         /\ LastChunk = Chunk("out", "prefix", out_frame.prefix, threshold_clone, ChatPacketId)

\* the inbound loop waits for the socket lock with a reply to write while
\* the input loop is between the two writes of a chat frame
C1_Witness ==
    /\ pc = "ka_lock"
    /\ out_pc = "chat_body"
    /\ sock = "out"
    /\ Len(MainFrames) > 0

\* C2: the frames the inbound loop has written are, in order, the replies to
\* the keep-alives received: each reads, under the session's threshold, as
\* one packet 0x10 whose payload is the token of the keep-alive.  No
\* keep-alive has two replies, none but the one being answered has none, and
\* no frame of the input loop is a reply.
C2_OneReplyPerKeepAlive ==
    Active =>
      /\ Len(MainFrames) <= Len(ka_tokens)
      /\ Len(ka_tokens) <= Len(MainFrames) + 1
      /\ \A i \in 1 .. Len(MainFrames) :
           /\ AsRead(MainFrames[i]) = RecvOk(KeepAliveReplyId, ka_tokens[i], << >>)
           /\ MainFrames[i].t = threshold
      /\ pc = "recv" => Len(MainFrames) = Len(ka_tokens)
      /\ pc \in {"ka_lock", "ka_prefix", "ka_body"} =>
           /\ last_rx.id = KeepAliveId
           /\ Len(ka_tokens) = Len(MainFrames) + 1
      /\ \A i \in 1 .. Len(OutFrames) : AsRead(OutFrames[i]).id # KeepAliveReplyId

\* two keep-alives with different tokens have been answered, compression on
C2_Witness ==
    /\ pc = "recv"
    /\ threshold >= 0
    /\ Len(MainFrames) = 2
    /\ ka_tokens = << Token1, Token2 >>

\* the threshold the first packet after login start sets
Negotiated ==
    IF first_packet.id = SetCompressionId
    THEN read_varint_cursor(first_packet.data, 0).val
    ELSE -1

C3_ThresholdState ==
    /\ ~Active => threshold = -1 /\ threshold_clone = -1
    /\ Active =>
         /\ first_packet.st = "ok"
         /\ threshold = Negotiated
         /\ threshold_clone = threshold
         /\ rx > 0 => last_rx.t = threshold
         /\ \A i \in 1 .. Len(ActiveWire) : ActiveWire[i].t = threshold
         /\ \A i \in 1 .. Len(OutFrames) :
              /\ AsRead(OutFrames[i]).st = "ok"
              /\ AsRead(OutFrames[i]).id = ChatPacketId
         /\ \A i \in 1 .. Len(MainFrames) : AsRead(MainFrames[i]).st = "ok"

C3_ThresholdKept ==
    Active => threshold' = threshold /\ threshold_clone' = threshold_clone

\* C3: the threshold is -1 until the first packet after login start is
\* received; in Active it is the VarInt payload of that packet if the packet
\* is set-compression; it never changes in Active, and every receive and
\* every frame written by either loop uses it.
C3_ThresholdNegotiatedOnce == []C3_ThresholdState /\ [][C3_ThresholdKept]_vars

\* with the threshold set to 12, both loops have written a frame and the
\* inbound loop has received
C3_Witness ==
    /\ threshold = 12
    /\ first_packet.id = SetCompressionId
    /\ Len(OutFrames) > 0
    /\ Len(MainFrames) > 0
    /\ rx > 1

\* C4: a first packet other than set-compression leaves the threshold at -1
\* and the session Active at once; it is not dispatched: before the inbound
\* loop has received anything the main thread is at its receive, the roster
\* is empty and nothing has been written since login start.
C4_FirstPacketDropped ==
    /\ (first_packet.st = "ok" /\ first_packet.id # SetCompressionId) =>
         Active /\ threshold = -1
    /\ (Active /\ rx = 0) =>
         /\ pc = "recv"
         /\ DOMAIN online_players = {}
         /\ Len(MainFrames) = 0
         /\ \A i \in 1 .. Len(ActiveWire) : ActiveWire[i].by = "out"
    /\ Len(MainFrames) <= Len(ka_tokens)

\* the first packet was a keep-alive, the session is Active, and the input
\* loop has already sent a chat frame before any further packet came
C4_Witness ==
    /\ first_packet.st = "ok"
    /\ first_packet.id = KeepAliveId
    /\ Active
    /\ rx = 0
    /\ threshold = -1
    /\ Len(OutFrames) = 1

C5_Failed ==
    /\ last_rx.st = "err" => pc = "returned" /\ err = "receive"
    /\ (rx > 0 /\ last_rx.tag = "malformed") =>
         \/ pc \in {"pl_lock", "pl_entry"}
         \/ pc = "returned" /\ err = "decode"
    /\ pc = "returned" => err # "none"

C5_Terminated ==
    pc = "returned" =>
      /\ pc' = "returned"
      /\ err' = err
      /\ rx' = rx
      /\ last_rx' = last_rx
      /\ attempt' = attempt
      /\ online_players' = online_players
      /\ Len(MainFrames') = Len(MainFrames)

\* C5: a failed receive, or a handled packet that cannot be decoded, makes
\* start() return the error (the malformed packet is not skipped); once it
\* has, the inbound loop receives and dispatches nothing and no connection
\* attempt is made.
C5_InboundFailureTerminates == []C5_Failed /\ [][C5_Terminated]_vars

\* a player-list update that ends inside its second entry ended the session
\* after its first entry was applied, and the process is over
C5_Witness ==
    /\ pc = "returned"
    /\ err = "decode"
    /\ last_rx.tag = "malformed"
    /\ last_rx.id = PlayerListId
    /\ DOMAIN online_players # {}
    /\ ~alive

\* C6: a failed write of a chat packet ends the session: once the input
\* loop has failed on its write, the inbound loop receives no packet.
C6_ChatWriteFailureEndsSession ==
    [][(out_pc = "panicked" /\ sock_poisoned) => rx' = rx]_vars

\* C7: a player-list update with an action code other than 0..4 is a
\* protocol error: once received it is being decoded, or start() has returned
\* the decode error; the inbound loop does not come back to its receive.
C7_UnknownActionIsError ==
    (rx > 0 /\ last_rx.tag = "unknown_action") =>
      \/ pc \in {"pl_lock", "pl_entry"}
      \/ pc = "returned" /\ err = "decode"

(***************************************************************************)
(* Properties of the session's course.                                     *)
(***************************************************************************)
C16_Attempts ==
    /\ pc = "connect" => attempt \in 1 .. 6
    /\ (pc # "connect" /\ err # "connect") => attempt = 0
    /\ err = "connect" =>
         /\ pc = "returned"
         /\ attempt = 6
         /\ wire = << >>
         /\ rx = 0
         /\ ~Active

C16_Connecting ==
    /\ pc = "connect" =>
         \/ pc' = "connect" /\ attempt' = attempt
         \/ pc' = "connect" /\ attempt' = attempt + 1 /\ attempt <= 5
         \/ pc' = "handshake" /\ attempt' = 0 /\ attempt <= 5
         \/ pc' = "returned" /\ err' = "connect" /\ attempt' = attempt /\ attempt = 6
    /\ pc # "connect" => pc' # "connect" /\ attempt' = attempt
    /\ err = "connect" => UNCHANGED << pc, err, wire, rx, out_pc, sock, roster >>

\* C16: init_connection makes its attempts one after the other, numbered 1
\* to 5; the first that succeeds ends it and the session goes on to the
\* handshake with no further attempt; when the fifth has failed start()
\* returns the connect error with nothing written, and nothing is written
\* or received afterwards and the session is never Active.
C16_AtMostFiveAttempts == []C16_Attempts /\ [][C16_Connecting]_vars

\* five attempts have failed: start() has returned the connect error and
\* the process is over
C16_Witness ==
    /\ pc = "returned"
    /\ err = "connect"
    /\ attempt = 6
    /\ ~alive

\* the state of the session: 1 Connecting (up to the end of login start),
\* 2 AwaitingCompressionNegotiation, 3 Active, 4 Terminated
SessionState ==
    IF ~alive \/ pc \in {"returned", "panicked"} THEN 4
    ELSE IF Active THEN 3
    ELSE IF pc = "negotiate" THEN 2
    ELSE 1

\* writes i and i + 1 are one frame that reads, with compression off, as
\* packet 0 with this payload
WrittenAt(i, payload) ==
    /\ wire[i].by = "main" /\ wire[i + 1].by = "main"
    /\ wire[i].kind = "prefix" /\ wire[i + 1].kind = "body"
    /\ wire[i].t = -1 /\ wire[i + 1].t = -1
    /\ receive_packet(wire[i].bytes \o wire[i + 1].bytes, -1) = RecvOk(0, payload, << >>)

C17_Course ==
    /\ pc \in {"connect", "handshake"} => wire = << >>
    /\ pc = "login" => Len(wire) = 2
    /\ pc = "negotiate" => Len(wire) = 4 /\ first_packet.st = "none"
    /\ Len(wire) >= 2 => WrittenAt(1, HandshakePayload(IP, PORT, LoginIntent))
    /\ Len(wire) >= 4 => WrittenAt(3, LoginStartPayload(USERNAME))
    /\ ~Active =>
         /\ Len(wire) <= 4
         /\ rx = 0 /\ lines = 0
         /\ ka_tokens = << >>
         /\ sock = "free" /\ roster = "free"
    /\ Active =>
         /\ Len(wire) >= 4
         /\ first_packet.st = "ok"
         /\ \A i \in 5 .. Len(wire) : wire[i].t = threshold
    /\ (first_packet.st # "none" /\ rx = 0) => last_rx.t = -1 /\ last_rx.tag = "first"

C17_Order ==
    /\ SessionState' \in {SessionState, SessionState + 1, 4}
    /\ (pc = "negotiate" /\ pc' # "negotiate") =>
         /\ first_packet'.st # "none"
         /\ last_rx'.t = -1
         /\ wire' = wire
    /\ Active => first_packet' = first_packet

\* C17: the session goes from Connecting to AwaitingCompressionNegotiation
\* to Active to Terminated, never back and skipping none unless it
\* terminates.  The first two frames on the wire are the handshake and then
\* login start, both written with threshold -1; one packet is then received
\* with threshold -1; until it has been, the input loop does not run and
\* nothing else is written, so every chat packet and keep-alive reply comes
\* after it and carries the threshold then fixed.
C17_StatesInOrder == []C17_Course /\ [][C17_Order]_vars

\* the session has been through all four states: after the negotiation a
\* keep-alive was answered and a chat line sent, then the server closed the
\* connection and the process ended
C17_Witness ==
    /\ ~alive
    /\ pc = "returned"
    /\ err = "receive"
    /\ last_rx.tag = "closed"
    /\ first_packet.id = SetCompressionId
    /\ Len(MainFrames) = 1
    /\ Len(OutFrames) = 1

\* a write to the socket has failed
WriteFailed == err = "write" \/ sock_poisoned

\* every keep-alive received has its reply on the wire
AllAnswered == Len(MainFrames) = Len(ka_tokens)

C18_Answered ==
    (Active /\ pc = "ka_lock") ~> ((pc = "recv" /\ AllAnswered) \/ WriteFailed \/ ~alive)

C18_BeforeNext == rx' # rx => AllAnswered

C18_InOrder ==
    \A i \in 1 .. Len(MainFrames) :
      /\ i <= Len(ka_tokens)
      /\ AsRead(MainFrames[i]).data = ka_tokens[i]

MainWaits == pc \in {"ka_lock", "pl_lock"}
OutWaits == out_pc \in {"chat_lock", "list_lock"}

\* the thread is at a lock() call and the other thread holds that lock
MainBlocked == (pc = "ka_lock" /\ sock = "out") \/ (pc = "pl_lock" /\ roster = "out")
OutBlocked == (out_pc = "chat_lock" /\ sock = "main") \/ (out_pc = "list_lock" /\ roster = "main")

C19_Holders ==
    /\ roster = "main" <=> pc = "pl_entry"
    /\ sock = "main" <=> pc \in {"ka_prefix", "ka_body"}
    /\ roster = "out" <=> out_pc = "list_print"
    /\ sock = "out" <=> out_pc \in {"chat_prefix", "chat_body"}
    /\ ~(roster = "main" /\ sock = "main")
    /\ ~(roster = "out" /\ sock = "out")
    /\ MainWaits => roster # "main" /\ sock # "main"
    /\ OutWaits => roster # "out" /\ sock # "out"
    /\ ~(MainBlocked /\ OutBlocked)

C19_HeldBriefly ==
    /\ (roster = "main" \/ sock = "main") => rx' = rx
    /\ (roster = "out" \/ sock = "out") => lines' = lines
    /\ sock # "free" => Len(wire') <= Len(wire) + 1
    /\ (sock # "free" /\ wire' # wire) => wire'[Len(wire')].by = sock
    /\ (roster = "out" /\ roster' # "out") => Len(console') = Len(console) + 1

\* C19: a thread holds the roster lock only while it applies one
\* player-list packet or prints one .list, and the socket lock only while it
\* writes one frame; it holds nothing while it waits for a lock and never
\* both locks, so the two threads are never both blocked; a thread that
\* holds a lock receives no packet and reads no line before it has released
\* it.
C19_NoDeadlock == []C19_Holders /\ [][C19_HeldBriefly]_vars

\* both locks are held, each by another thread: the inbound loop applies
\* a player-list update while the input loop is writing a chat frame
C19_Witness ==
    /\ pc = "pl_entry"
    /\ pl_left > 0
    /\ roster = "main"
    /\ sock = "out"
    /\ out_pc = "chat_body"

(***************************************************************************)
(* Properties of the roster.                                               *)
(***************************************************************************)
\* the payload of the last packet received, if it is a player-list update
IsPlayerList == rx > 0 /\ last_rx.st = "ok" /\ last_rx.id = PlayerListId

\* the action code of that update
ListAction == read_varint_cursor(last_rx.data, 0).val

\* C11: the name stored for an id in the roster is never overwritten: an
\* id that is in the roster before and after a step has the same name, so
\* an add (action 0) naming an id already present keeps the first name,
\* also when the id occurs twice in one packet.
C11_FirstWriterWins ==
    [][\A u \in DOMAIN online_players \cap DOMAIN online_players' :
         online_players'[u] = online_players[u]]_vars

\* both entries of an add naming id 1 twice, as "al" and then as "zed",
\* have been applied: the roster has id 1 as "al"
C11_Witness ==
    /\ pc = "pl_entry"
    /\ pl_left = 0
    /\ last_rx.data = PlayerList(0, 2, AddEntry(1, NameAl) \o AddEntry(1, NameZed))
    /\ m_pos = Len(last_rx.data)
    /\ online_players = [u \in {Uuid(1)} |-> NameAl]

\* the entry count of that update, and where its entries begin
ListCount == read_varint_cursor(last_rx.data, read_varint_cursor(last_rx.data, 0).pos)

\* the id of the i-th entry of a remove
RemovedId(i) ==
    SubSeq(last_rx.data, ListCount.pos + UuidLen * (i - 1) + 1, ListCount.pos + UuidLen * i)

\* the last packet received is a remove with all the ids it announces
IsRemove ==
    /\ IsPlayerList
    /\ ListAction = 4
    /\ ListCount.st = "ok"
    /\ Len(last_rx.data) >= ListCount.pos + UuidLen * ListCount.val

\* the roster as it was when the packet was received, less the first n ids
\* the packet names
Removed(n) ==
    LET gone == {RemovedId(i) : i \in 1 .. n}
    IN  [u \in DOMAIN last_rx.players \ gone |-> last_rx.players[u]]

\* C12: a remove (action 4) takes out of the roster exactly the ids of its
\* entries: entry by entry while it is applied, and all of them once the
\* inbound loop is back at its receive; the other entries are as they were
\* when the packet came, and an id that is not in the roster is passed over
\* without an error.
C12_RemoveExact ==
    IsRemove =>
      /\ pc \in {"pl_lock", "pl_entry", "recv"}
      /\ err = "none"
      /\ pc = "pl_lock" => online_players = last_rx.players
      /\ pc = "pl_entry" => online_players = Removed(ListCount.val - pl_left)
      /\ pc = "recv" => online_players = Removed(ListCount.val)

\* a remove of ids 1 and 2 has been applied to a roster of ids 2 and 3:
\* id 1 was not there, id 3 is left
C12_Witness ==
    /\ IsRemove
    /\ pc = "recv"
    /\ last_rx.data = PlayerList(4, 2, Uuid(1) \o Uuid(2))
    /\ DOMAIN last_rx.players = {Uuid(2), Uuid(3)}
    /\ online_players = [u \in {Uuid(3)} |-> NameAl]

C13_StartsEmpty == rx = 0 => DOMAIN online_players = {}

C13_Change ==
    online_players' # online_players =>
      /\ pc = "pl_entry"
      /\ roster = "main"
      /\ IsPlayerList
      /\ pl_action = ListAction
      /\ pl_action \in {0, 4}
      /\ out_pc' = out_pc
      /\ lines' = lines
      /\ console' = console

\* C13: the roster is empty until the inbound loop has received a packet,
\* and a step changes it only when the inbound loop, holding the roster
\* lock, applies an entry of a player-list update with action 0 or 4; no
\* other packet and no step of the input loop changes it.
C13_OnlyAddAndRemove == []C13_StartsEmpty /\ [][C13_Change]_vars

\* an update of a display name (action 3) for a player of the roster has
\* been applied and .list has printed: the roster is as the add before left
\* it
C13_Witness ==
    /\ pc = "recv"
    /\ IsPlayerList
    /\ ListAction = 3
    /\ online_players = last_rx.players
    /\ Uuid(1) \in DOMAIN online_players
    /\ Len(console) = 1
    /\ console[1].kind = "list"

\* some entries of the last player-list update have changed the roster and
\* the update has not been applied to its end
PartlyApplied ==
    /\ IsPlayerList
    /\ online_players # last_rx.players
    /\ \/ pc = "pl_entry" /\ pl_left > 0
       \/ pc \in {"returned", "panicked"}

\* what .list printed last
Listed == console'[Len(console')]

\* C14: what .list prints is a snapshot of the roster: the count is the
\* number of names listed and the size of the roster, and at the moment of
\* the snapshot no player-list update is partly applied.
C14_ListIsSnapshot ==
    [][(Len(console') > Len(console) /\ Listed.kind = "list") =>
         /\ Listed.count = Len(Listed.names)
         /\ Listed.count = Cardinality(DOMAIN online_players)
         /\ ~PartlyApplied]_vars

(***************************************************************************)
(* Properties of the input loop.                                           *)
(***************************************************************************)
\* the step reads a line from the console (not the end of the input, and
\* text read_line accepts)
LineRead ==
    /\ lines' = lines + 1
    /\ stdin_line' # << >>
    /\ Utf8Ok(stdin_line')

\* a line as typed: what was read less its line terminator (LF or CR LF)
AsTyped(s) ==
    LET n == Len(s)
    IN  IF n >= 2 /\ s[n] = 10 /\ s[n - 1] = 13 THEN Take(s, n - 2)
        ELSE IF n >= 1 /\ s[n] = 10 THEN Take(s, n - 1)
        ELSE s

\* the step rejects the line: a warning, and nothing else changes
Rejects ==
    /\ console' = Append(console, [kind |-> "rejected", count |-> 0, names |-> << >>])
    /\ out_pc' = "read"
    /\ UNCHANGED << wire, sock, threshold, threshold_clone, online_players, out_frame >>

\* the step makes of text the one chat packet the loop goes on to write
Chats(text) ==
    /\ out_frame' = send_packet(ChatPacketId, write_var_int(Len(text)) \o text, threshold_clone)
    /\ out_pc' = "chat_lock"
    /\ console' = console

\* C15 as stated: a line of more than 255 bytes is rejected; a line of at
\* most 255 bytes that is not .list or .quit becomes one chat packet whose
\* payload is the length of the line and the line.
C15_LineLimit ==
    [][LineRead =>
         LET line == AsTyped(stdin_line')
         IN  /\ Len(line) > MaxLineLen => Rejects
             /\ ( /\ Len(line) <= MaxLineLen
                  /\ ~eq_ignore_ascii_case(trim(line), DotList)
                  /\ ~eq_ignore_ascii_case(trim(line), DotQuit) ) => Chats(line)]_vars

C15_Read ==
    LineRead =>
      LET text == trim(stdin_line')
      IN  /\ Len(text) > MaxLineLen => Rejects
          /\ ( /\ Len(text) <= MaxLineLen
               /\ ~eq_ignore_ascii_case(text, DotList)
               /\ ~eq_ignore_ascii_case(text, DotQuit) ) => Chats(text)

C15_Written ==
    (out_pc = "chat_body" /\ out_pc' = "read") =>
      /\ Len(wire') = Len(wire) + 1
      /\ wire'[Len(wire')].by = "out"
      /\ receive_packet(LastChunk.bytes \o wire'[Len(wire')].bytes, threshold)
           = RecvOk(ChatPacketId,
                    write_var_int(Len(trim(stdin_line))) \o trim(stdin_line), << >>)

C15_Sending ==
    out_pc \in {"chat_lock", "chat_prefix", "chat_body"} =>
      /\ Len(trim(stdin_line)) <= MaxLineLen
      /\ out_frame = send_packet(ChatPacketId, ChatPayload(trim(stdin_line)), threshold_clone)

\* C15 (amended): the limit applies to the line with the whitespace at its
\* ends trimmed.  A line whose trimmed text is longer than 255 bytes is
\* rejected with a warning, with no write and no change of threshold or
\* roster, and the loop reads on; a line whose trimmed text has at most 255
\* bytes and is not .list or .quit in any letter case becomes one chat
\* packet 0x03 whose payload is the VarInt length of the trimmed text and
\* the trimmed text, and that is the frame the loop writes.
C15_TrimmedLineLimit ==
    /\ [][C15_Read]_vars
    /\ [][C15_Written]_vars
    /\ []C15_Sending

\* a line of 256 bytes has been rejected, and a line of 255 letters and a
\* blank (256 bytes as typed) has then been sent as one chat frame
C15_Witness ==
    /\ lines = 2
    /\ console = << [kind |-> "rejected", count |-> 0, names |-> << >>] >>
    /\ stdin_line = LineOf(MaxLineLen) \o << 32, 13, 10 >>
    /\ out_pc = "read"
    /\ Len(OutFrames) = 1
    /\ Len(FramesOf(ActiveWire)) = 1

\* the writes of the input loop
OutWrites(w) == SelectSeq(w, ByOut)

\* C20: a chat packet is written only for a line read from the console:
\* once a read has returned no data (the end of the input), the input loop
\* writes nothing to the socket any more.
C20_NoChatAfterEndOfInput ==
    [][stdin_eof => OutWrites(wire') = OutWrites(wire)]_vars

--------------------------------------------------------------------------
(***************************************************************************)
(* Properties of the codec.                                                *)
(***************************************************************************)
\* the packet as serialized before framing
c_raw == write_var_int(c_id) \o c_data

\* C8: with threshold >= 0 and a declared length U # 0, receive returns a
\* packet only when the stream inflates and the inflated data is exactly U
\* bytes long; when inflation fails or the inflated data is shorter or
\* longer than U, it returns no packet.
C8_DeclaredLengthChecked ==
    c_pc = "delivered_received" =>
      IF ~c_corrupt /\ Len(c_raw) = c_declared
      THEN c_got.st = "ok"
      ELSE c_got.st # "ok"

\* C9: the frame send writes is the VarInt length of its body followed by
\* the body; the body is raw below threshold 0, VarInt(0) and raw when raw
\* is shorter than the threshold, and otherwise VarInt(len(raw)) followed by
\* a zlib stream that inflates to raw.
C9_SendRepresentation ==
    c_pc = "sent" =>
      /\ c_frame.prefix = write_var_int(Len(c_frame.body))
      /\ c_threshold < 0 => c_frame.body = c_raw
      /\ (c_threshold >= 0 /\ Len(c_raw) < c_threshold) =>
           c_frame.body = << 0 >> \o c_raw
      /\ (c_threshold >= 0 /\ Len(c_raw) >= c_threshold) =>
           LET n == write_var_int(Len(c_raw))
           IN  /\ Take(c_frame.body, Len(n)) = n
               /\ ZlibDecode(c_frame.body, Len(n)) = Ok(c_raw, Len(c_frame.body))

\* a packet of exactly threshold bytes has been sent, compressed
C9_Witness ==
    /\ c_pc = "sent"
    /\ c_threshold > 0
    /\ Len(c_raw) = c_threshold
    /\ c_frame.body[1] = c_threshold

\* C10: receiving, with the same threshold, the frame send produced returns
\* the packet's id and payload and leaves of the stream exactly what follows
\* the frame.
C10_RoundTrip ==
    c_pc = "sent_received" => c_got = RecvOk(c_id, c_data, c_tail)

\* a packet of exactly threshold bytes, followed on the stream by another
\* frame, has been sent and received
C10_Witness ==
    /\ c_pc = "sent_received"
    /\ c_threshold > 0
    /\ Len(c_raw) = c_threshold
    /\ c_data # << >>
    /\ c_tail # << >>
    /\ c_got.st = "ok"

==========================================================================
